---- MODULE Spec2Model ----
(***************************************************************************)
(* Chamber-cycle flux extraction of hyy16_chdata_proc_all.py.              *)
(*                                                                         *)
(* Units.  Time is in whole seconds since 2016-01-01 00:00 (UTC+2): the    *)
(* code's fractional day of year times 86400; every schedule constant of   *)
(* the code is a whole number of seconds.  Areas are in 1e-6 m^2, volumes  *)
(* in 1e-7 m^3, flow rates in mL/min, time lags in seconds.  A fitted      *)
(* slope (and the flux, its negative) is carried as its product with the   *)
(* chamber area, in hundredths: the sanity bound 5 is 500.                 *)
(* Not-a-number is the value NaN; every comparison with it is false.       *)
(***************************************************************************)
EXTENDS Integers, Sequences, FiniteSets, TLC

VARIABLES
    pc,             \* position of the script: "campaign", "visits", "crashed", "done"; "probe"/"resolved"; "objective"/"scored"
    doy,            \* the day loop's variable (whole day index)
    has_sensor,     \* sensor_data.size > 0 for the day being processed
    n_ch,           \* chambers in today's table
    smpl_seq_len,   \* length of one sampling sequence, seconds
    n_smpl_per_day, \* visits of the day
    ch_no,          \* array: chamber number of each visit
    ch_time,        \* array: time stamp of each visit (0 until the visit is processed)
    loop_num,       \* next visit of the per-visit loop (0-based)
    inp,            \* what the visit just processed read from the data files
    rec,            \* the output values of the visit just processed
    flux_file,      \* rows of the flux file last written
    diag_file,      \* rows of the diagnostics file last written
    outputs,        \* days whose output files exist
    t_probe,        \* a time stamp handed to chamber_lookup_table_func
    chlut_probe,    \* what it returned
    combined,       \* days of the daily files, in the order the combined file lists them
    obj_in,         \* arguments of one evaluation of func_conc_resid at one sample
    obj_out         \* the terms of the fitted concentration at that sample

vars == <<pc, doy, has_sensor, n_ch, smpl_seq_len, n_smpl_per_day, ch_no, ch_time,
          loop_num, inp, rec, flux_file, diag_file, outputs, t_probe, chlut_probe,
          combined, obj_in, obj_out>>

-----------------------------------------------------------------------------
(* Numbers *)

NaN == -999999

SecPerDay == 86400

\* day d, h hours, m minutes, as seconds
T(d, h, m) == d * SecPerDay + h * 3600 + m * 60

IsNaN(x) == x = NaN

\* IEEE comparisons: false when either side is not-a-number
Gt(a, b) == a # NaN /\ b # NaN /\ a > b
Lt(a, b) == a # NaN /\ b # NaN /\ a < b
Ge(a, b) == a # NaN /\ b # NaN /\ a >= b

Abs(x) == IF x = NaN THEN NaN ELSE IF x < 0 THEN -x ELSE x
Neg(x) == IF x = NaN THEN NaN ELSE -x

\* np.nanmin / np.nanmax of a pair: not-a-number entries are ignored
nanmin(a, b) == IF a = NaN THEN b ELSE IF b = NaN THEN a ELSE IF a < b THEN a ELSE b
nanmax(a, b) == IF a = NaN THEN b ELSE IF b = NaN THEN a ELSE IF a > b THEN a ELSE b

-----------------------------------------------------------------------------
(* Chamber constants *)

V_lc_small == 18000
V_lc_large == 35000
V_lc_XL == 47000
V_lc_slide == 10000
A_sc == 31780
V_sc == 47117
A_tsc == 35968
V_tsc == 40464
A_lsc == 320000
V_lsc == 864000

-----------------------------------------------------------------------------
(* chamber_lookup_table_func *)

NEpochs == 8

\* the chain with the third branch starting strictly after 04/21 12:00
EpochCondGap(k, t) ==
    CASE k = 1 -> t < T(103, 11, 0)
      [] k = 2 -> t >= T(103, 11, 0) /\ t < T(111, 12, 0)
      [] k = 3 -> t > T(111, 12, 0) /\ t < T(119, 0, 0)
      [] k = 4 -> t >= T(119, 0, 0) /\ t < T(140, 11, 30)
      [] k = 5 -> t >= T(140, 11, 30) /\ t < T(145, 10, 11)
      [] k = 6 -> t >= T(145, 10, 11) /\ t < T(154, 14, 8)
      [] k = 7 -> t >= T(154, 14, 8) /\ t < T(166, 12, 0)
      [] k = 8 -> t >= T(166, 12, 0)

\* the chain with the first branch closed below at the first day of the campaign
EpochCondFromStart(k, t) ==
    CASE k = 1 -> t >= T(97, 0, 0) /\ t < T(103, 11, 0)
      [] k = 2 -> t >= T(103, 11, 0) /\ t < T(111, 12, 0)
      [] k = 3 -> t >= T(111, 12, 0) /\ t < T(119, 0, 0)
      [] k = 4 -> t >= T(119, 0, 0) /\ t < T(140, 11, 30)
      [] k = 5 -> t >= T(140, 11, 30) /\ t < T(145, 10, 11)
      [] k = 6 -> t >= T(145, 10, 11) /\ t < T(154, 14, 8)
      [] k = 7 -> t >= T(154, 14, 8) /\ t < T(166, 12, 0)
      [] k = 8 -> t >= T(166, 12, 0)

\* the condition of the k-th branch of the if/elif chain
EpochCond(k, t) ==
    CASE k = 1 -> t < T(103, 11, 0)
      [] k = 2 -> t >= T(103, 11, 0) /\ t < T(111, 12, 0)
      [] k = 3 -> t >= T(111, 12, 0) /\ t < T(119, 0, 0)
      [] k = 4 -> t >= T(119, 0, 0) /\ t < T(140, 11, 30)
      [] k = 5 -> t >= T(140, 11, 30) /\ t < T(145, 10, 11)
      [] k = 6 -> t >= T(145, 10, 11) /\ t < T(154, 14, 8)
      [] k = 7 -> t >= T(154, 14, 8) /\ t < T(166, 12, 0)
      [] k = 8 -> t >= T(166, 12, 0)

\* the branch the chain takes: the first whose condition holds, 0 when none does
EpochOf(t) ==
    IF \E k \in 1..NEpochs : EpochCond(k, t)
    THEN CHOOSE k \in 1..NEpochs : EpochCond(k, t) /\ \A j \in 1..(k - 1) : ~EpochCond(j, t)
    ELSE 0

MkTable(nos, labels, shoots, flows, tcs, pars) ==
    [i \in 1..Len(nos) |->
        [ch_no |-> nos[i], ch_label |-> labels[i], shoot_no |-> shoots[i],
         flowmeter_no |-> flows[i], TC_no |-> tcs[i], PAR_no |-> pars[i]]]

\* the index counted from the last row
set_value_from_end(chlut, idx, col, val) == [chlut EXCEPT ![Len(chlut) - idx][col] = val]

\* DataFrame.set_value(index, col, value): the index labels are 0-based
set_value(chlut, idx, col, val) == [chlut EXCEPT ![idx + 1][col] = val]

\* chlut[col] = array
set_column(chlut, col, arr) == [i \in 1..Len(chlut) |-> (col :> arr[i]) @@ chlut[i]]

\* if cond: chlut = chlut.set_value(idx, col, val)
WhenSet(cond, chlut, idx, col, val) == IF cond THEN set_value(chlut, idx, col, val) ELSE chlut

\* the overrides nested in a branch of the if/elif chain: occupant and label changes
OccupantOverrides ==
    {"xl_rubber", "aspen_bud", "aspen_branch", "sb_moved", "blank_slide", "blank_sa", "blank_sb"}

\* the branch an occupant override is nested in
OccupantEpoch(o) ==
    CASE o = "xl_rubber" -> 2
      [] o = "aspen_bud" -> 3
      [] o = "aspen_branch" -> 7
      [] OTHER -> 8

\* the condition under which a branch applies an occupant override
OccupantCond(o, t) ==
    CASE o = "xl_rubber" -> t >= T(108, 8, 25)
      [] o = "aspen_bud" -> t >= T(112, 8, 30)
      [] o = "aspen_branch" -> t >= T(158, 9, 0)
      [] o = "sb_moved" -> t >= T(175, 10, 0)
      [] o = "blank_slide" -> t >= T(241, 12, 0) /\ t <= T(255, 11, 0)
      [] o = "blank_sa" -> /\ t >= T(241, 12, 0) /\ t <= T(255, 11, 0)
                           /\ t >= T(245, 9, 40) /\ t <= T(252, 9, 31)
      [] o = "blank_sb" -> /\ t >= T(241, 12, 0) /\ t <= T(255, 11, 0)
                           /\ ~(t >= T(245, 9, 40) /\ t <= T(252, 9, 31))

\* the area and volume changes, of the one-hour and of the 1.5-hour phase
AreaOverrides ==
    {"xl_test_area", "aspen_bud_area", "tsc", "aspen_leaf", "sa_shoots_area", "slide_area",
     "swap_area", "sb_moved_area"}

\* the outer condition (doy < 119 or doy >= 119) an area change is nested in
AreaPhase(o, t) ==
    IF o \in {"xl_test_area", "aspen_bud_area"} THEN t < T(119, 0, 0) ELSE t >= T(119, 0, 0)

\* the condition under which an area or volume change is applied
AreaCond(o, t) ==
    CASE o = "xl_test_area" -> t >= T(108, 8, 25) /\ t < T(110, 13, 40)
      [] o = "aspen_bud_area" -> t > T(111, 12, 0)
      [] o = "tsc" -> t >= T(131, 12, 0)
      [] o = "aspen_leaf" -> t >= T(135, 12, 0)
      [] o = "sa_shoots_area" -> t >= T(145, 10, 11)
      [] o = "slide_area" -> t >= T(154, 14, 8)
      [] o = "swap_area" -> t >= T(166, 12, 0)
      [] o = "sb_moved_area" -> t >= T(175, 10, 0)

\* the periods without chamber
NoChamberOverrides ==
    {"no_aux4_d110", "no_aux3_d111", "no_bg_d111", "no_aux4_d154", "no_aux4_d158"}

\* the periods without chamber, the one of days 110 to 111 ending with the branch
NoChamberCondInBranch(o, t) ==
    CASE o = "no_aux4_d110" -> t > T(110, 13, 40) /\ t < T(111, 12, 0)
      [] o = "no_aux3_d111" -> t > T(111, 8, 20) /\ t < T(111, 13, 15)
      [] o = "no_bg_d111" -> t > T(111, 8, 20) /\ t < T(111, 12, 20)
      [] o = "no_aux4_d154" -> t > T(154, 13, 40) /\ t < T(154, 14, 8)
      [] o = "no_aux4_d158" -> t > T(158, 9, 0) /\ t < T(158, 10, 0)

\* the condition under which shoot_no is set to zero
NoChamberCond(o, t) ==
    CASE o = "no_aux4_d110" -> t > T(110, 13, 40) /\ t < T(111, 13, 15)
      [] o = "no_aux3_d111" -> t > T(111, 8, 20) /\ t < T(111, 13, 15)
      [] o = "no_bg_d111" -> t > T(111, 8, 20) /\ t < T(111, 12, 20)
      [] o = "no_aux4_d154" -> t > T(154, 13, 40) /\ t < T(154, 14, 8)
      [] o = "no_aux4_d158" -> t > T(158, 9, 0) /\ t < T(158, 10, 0)

\* ch_no of the five-chamber tables
FiveCh == <<1, 2, 3, 4, 5>>

\* the six chambers in ascending order of their number
SixChSorted == <<1, 2, 3, 4, 5, 6>>

\* ch_no of the six-chamber tables: soil chamber 3 (ch_no 6) comes before soil
\* chambers 1 and 2
SixCh == <<1, 2, 3, 6, 4, 5>>

\* the table of each branch, its nested overrides applied
EpochTable(k, t) ==
    CASE k = 1 ->
           MkTable(FiveCh, <<"LC-S-B", "LC-S-A", "LC-L-A", "SC1", "SC2">>,
                   <<3, 1, 2, -1, -1>>, <<1, 2, 3, 5, 4>>, <<2, 1, 3, 4, 5>>, <<2, 1, 1, -1, -1>>)
      [] k = 2 ->
           LET c0 == MkTable(FiveCh, <<"LC-S-B", "LC-S-A", "LC-L-A", "SC1", "SC2">>,
                             <<6, 4, 5, -1, -1>>, <<1, 2, 3, 5, 4>>, <<2, 1, 3, 4, 5>>, <<2, 1, 1, -1, -1>>)
           IN  IF OccupantCond("xl_rubber", t)
               THEN set_value(set_value(c0, 0, "ch_label", "LC-XL+rubber"), 0, "shoot_no", 7)
               ELSE c0
      [] k = 3 ->
           LET c0 == MkTable(FiveCh, <<"LC-S-A", "LC-S-B", "LC-XL", "SC1", "SC2">>,
                             <<9, 8, 10, -1, -1>>, <<1, 2, 3, 5, 4>>, <<2, 1, 3, 4, 5>>, <<2, 2, 1, -1, -1>>)
           IN  IF OccupantCond("aspen_bud", t) THEN set_value(c0, 2, "shoot_no", 11) ELSE c0
      [] k = 4 ->
           MkTable(SixCh, <<"LC-S-A", "LC-S-B", "LC-XL", "SC3", "SC1", "SC2">>,
                   <<9, 8, 11, -1, -1, -1>>, <<1, 2, 3, 4, 5, 4>>, <<2, 1, 3, 6, 4, 5>>, <<2, 2, 1, -1, -1, -1>>)
      [] k = 5 ->
           MkTable(SixCh, <<"LC-S-B", "LC-S-A", "LC-XL", "SC3", "SC1", "SC2">>,
                   <<9, 8, 11, -1, -1, -1>>, <<1, 2, 3, 4, 5, 4>>, <<2, 1, 3, 6, 4, 5>>, <<2, 2, 1, -1, -1, -1>>)
      [] k = 6 ->
           MkTable(SixCh, <<"LC-S-A", "LC-S-B", "LC-XL", "SC3", "SC1", "SC2">>,
                   <<12, 8, 11, -1, -1, -1>>, <<1, 2, 3, 4, 5, 4>>, <<2, 1, 3, 6, 4, 5>>, <<2, 2, 1, -1, -1, -1>>)
      [] k = 7 ->
           LET c0 == MkTable(SixCh, <<"LC-Slide", "LC-S-B", "LC-XL", "SC3", "SC1", "SC2">>,
                             <<13, 8, 11, -1, -1, -1>>, <<1, 2, 3, 4, 5, 4>>, <<2, 1, 3, 6, 4, 5>>, <<1, 2, 1, -1, -1, -1>>)
           IN  IF OccupantCond("aspen_branch", t) THEN set_value(c0, 0, "shoot_no", 14) ELSE c0
      [] k = 8 ->
           WhenSet(OccupantCond("blank_sb", t),
           WhenSet(OccupantCond("blank_sa", t),
           WhenSet(OccupantCond("blank_slide", t),
           WhenSet(OccupantCond("sb_moved", t),
           WhenSet(OccupantCond("sb_moved", t),
               MkTable(SixCh, <<"LC-S-A", "LC-S-B", "LC-Slide", "SC3", "SC1", "SC2">>,
                       <<12, 8, 15, -1, -1, -1>>, <<1, 2, 3, 4, 5, 4>>, <<2, 1, 3, 6, 4, 5>>,
                       <<2, 2, 1, -1, -1, -1>>),
               1, "shoot_no", 16),
               1, "PAR_no", 1),
               2, "shoot_no", 17),
               0, "shoot_no", 19),
               1, "shoot_no", 18)

\* seconds from minutes given in halves: 1.5 min is HalfMin(3)
HalfMin(h) == h * 30

\* the sequence with ch_o_a and ch_end of the 1.5-hour loop interchanged
AddSequenceSwapped(chlut, t) ==
    IF t < T(119, 0, 0)
    THEN set_column(set_column(set_column(set_column(set_column(chlut,
            "ch_start", <<HalfMin(22), HalfMin(38), HalfMin(54), HalfMin(83), HalfMin(100)>>),
            "ch_o_b", <<0, 0, 0, 0, 0>>),
            "ch_cls", <<HalfMin(2), HalfMin(2), HalfMin(2), HalfMin(3), HalfMin(4)>>),
            "ch_o_a", <<HalfMin(10), HalfMin(10), HalfMin(10), HalfMin(17), HalfMin(18)>>),
            "ch_end", <<HalfMin(16), HalfMin(16), HalfMin(16), HalfMin(21), HalfMin(20)>>)
    ELSE set_column(set_column(set_column(set_column(set_column(chlut,
            "ch_start", <<HalfMin(24), HalfMin(42), HalfMin(60), HalfMin(98), HalfMin(130), HalfMin(152)>>),
            "ch_o_b", <<0, 0, 0, 0, 0, 0>>),
            "ch_cls", <<HalfMin(2), HalfMin(2), HalfMin(2), HalfMin(4), HalfMin(6), HalfMin(6)>>),
            "ch_end", <<HalfMin(10), HalfMin(10), HalfMin(10), HalfMin(20), HalfMin(22), HalfMin(22)>>),
            "ch_o_a", <<HalfMin(18), HalfMin(18), HalfMin(18), HalfMin(26), HalfMin(28), HalfMin(28)>>)

\* "add chamber sequence": offsets of the 1-hour and of the 1.5-hour loop
AddSequence(chlut, t) ==
    IF t < T(119, 0, 0)
    THEN set_column(set_column(set_column(set_column(set_column(chlut,
            "ch_start", <<HalfMin(22), HalfMin(38), HalfMin(54), HalfMin(83), HalfMin(100)>>),
            "ch_o_b", <<0, 0, 0, 0, 0>>),
            "ch_cls", <<HalfMin(2), HalfMin(2), HalfMin(2), HalfMin(3), HalfMin(4)>>),
            "ch_o_a", <<HalfMin(10), HalfMin(10), HalfMin(10), HalfMin(17), HalfMin(18)>>),
            "ch_end", <<HalfMin(16), HalfMin(16), HalfMin(16), HalfMin(21), HalfMin(20)>>)
    ELSE set_column(set_column(set_column(set_column(set_column(chlut,
            "ch_start", <<HalfMin(24), HalfMin(42), HalfMin(60), HalfMin(98), HalfMin(130), HalfMin(152)>>),
            "ch_o_b", <<0, 0, 0, 0, 0, 0>>),
            "ch_cls", <<HalfMin(2), HalfMin(2), HalfMin(2), HalfMin(4), HalfMin(6), HalfMin(6)>>),
            "ch_o_a", <<HalfMin(10), HalfMin(10), HalfMin(10), HalfMin(20), HalfMin(22), HalfMin(22)>>),
            "ch_end", <<HalfMin(18), HalfMin(18), HalfMin(18), HalfMin(26), HalfMin(28), HalfMin(28)>>)

\* np.interp(doy, [135.5, 145.5], [1e-4, 930e-4]), in 1e-6 m^2
AspenArea(t) ==
    IF t <= T(135, 12, 0) THEN 100
    ELSE IF t >= T(145, 12, 0) THEN 93000
    ELSE 100 + ((t - T(135, 12, 0)) * 929) \div 8640

\* "add leaf and soil areas, and chamber volumes"
AddAreaVolume(chlut, t) ==
    IF t < T(119, 0, 0)
    THEN WhenSet(AreaCond("aspen_bud_area", t),
         WhenSet(AreaCond("aspen_bud_area", t),
         WhenSet(AreaCond("xl_test_area", t),
         WhenSet(AreaCond("xl_test_area", t),
             set_column(set_column(chlut,
                 "A_ch", <<13000, 17000, 35000, A_sc, A_sc>>),
                 "V_ch", <<V_lc_small, V_lc_small, V_lc_large, V_sc, V_sc>>),
             0, "A_ch", 13000),
             0, "V_ch", V_lc_XL),
             2, "A_ch", 100),
             2, "V_ch", V_lc_XL)
    ELSE WhenSet(AreaCond("sb_moved_area", t),
         WhenSet(AreaCond("swap_area", t),
         WhenSet(AreaCond("swap_area", t),
         WhenSet(AreaCond("swap_area", t),
         WhenSet(AreaCond("swap_area", t),
         WhenSet(AreaCond("slide_area", t),
         WhenSet(AreaCond("slide_area", t),
         WhenSet(AreaCond("sa_shoots_area", t),
         WhenSet(AreaCond("aspen_leaf", t),
         WhenSet(AreaCond("tsc", t),
         WhenSet(AreaCond("tsc", t),
             set_column(set_column(chlut,
                 "A_ch", <<13000, 17000, 100, A_lsc, A_sc, A_sc>>),
                 "V_ch", <<V_lc_small, V_lc_small, V_lc_XL, V_lsc, V_sc, V_sc>>),
             5, "A_ch", A_tsc),
             5, "V_ch", V_tsc),
             2, "A_ch", AspenArea(t)),
             0, "A_ch", 30000),
             0, "A_ch", 19000),
             0, "V_ch", V_lc_slide),
             0, "A_ch", 30000),
             0, "V_ch", V_lc_small),
             2, "A_ch", 19000),
             2, "V_ch", V_lc_slide),
             1, "A_ch", 25000)

\* "set shoot_no to zero for absolutely no chamber period"
NoChamberPeriods(chlut, t) ==
    WhenSet(NoChamberCond("no_aux4_d158", t),
    WhenSet(NoChamberCond("no_aux4_d154", t),
    WhenSet(NoChamberCond("no_bg_d111", t),
    WhenSet(NoChamberCond("no_aux3_d111", t),
    WhenSet(NoChamberCond("no_aux4_d110", t),
        chlut,
        0, "shoot_no", 0),
        1, "shoot_no", 0),
        2, "shoot_no", 0),
        0, "shoot_no", 0),
        0, "shoot_no", 0)

\* an exception raised instead of a table (chlut unbound when no branch is taken)
Raised == << >>

chamber_lookup_table_func(t) ==
    LET k == EpochOf(t)
    IN  IF k = 0 THEN Raised
        ELSE NoChamberPeriods(AddAreaVolume(AddSequence(EpochTable(k, t), t), t), t)

-----------------------------------------------------------------------------
(* The campaign *)

\* doy_start of the whole-campaign run
DoyStart == 97

\* doy_end, np.int(doy_today): the day the script is run on
DoyEnd == 257

InSpan(t) == t >= T(DoyStart, 0, 0) /\ t < T(DoyEnd, 0, 0)

-----------------------------------------------------------------------------
(* One day: set-up (lines 647-820) *)

\* days for which a QCL file is found (qcl_flist); the other days are skipped
QclDays ==
    {97, 109, 111, 118, 196, 249}

\* chamber_lookup_table_func(doy + 0.5)
chlut_today(d) == chamber_lookup_table_func(T(d, 12, 0))

\* a cycle of one hour on every day
SmplSeqLenOneHour(d) == 3600

\* smpl_seq_len: one hour up to day 118, one and a half hours after
SmplSeqLen(d) == IF d <= 118 THEN 3600 ELSE 5400

\* n_smpl_per_day without the two exceptions
NSmplPerDayFull(d, nch) == nch * (SecPerDay \div SmplSeqLen(d))

\* n_smpl_per_day, with the exceptions of 04/19 and 04/28
NSmplPerDay(d, nch) ==
    IF d = 118 THEN nch * 17
    ELSE IF d = 109 THEN nch * 18
    ELSE nch * (SecPerDay \div SmplSeqLen(d))

\* np.tile(tbl['ch_no'].values, n_loop_per_day)[0:n]
Tile(tbl, n) == [m \in 1..n |-> tbl[((m - 1) % Len(tbl)) + 1].ch_no]

\* ch_no of the day
TiledChNo(d) == Tile(chlut_today(d), NSmplPerDay(d, Len(chlut_today(d))))

NoInp == [valid |-> FALSE]
NoRec == [valid |-> FALSE]

\* a day without QCL file that leaves output files behind
SkipDayWritesFile ==
    /\ pc = "campaign"
    /\ doy < DoyEnd
    /\ doy \notin QclDays
    /\ doy' = doy + 1
    /\ outputs' = outputs \cup {doy}
    /\ UNCHANGED <<pc, has_sensor, n_ch, smpl_seq_len, n_smpl_per_day, ch_no, ch_time,
                   loop_num, inp, rec, flux_file, diag_file, t_probe, chlut_probe,
                   combined, obj_in, obj_out>>

\* n_qcl_files == 0: the day is left with `continue`
SkipDay ==
    /\ pc = "campaign"
    /\ doy < DoyEnd
    /\ doy \notin QclDays
    /\ doy' = doy + 1
    /\ UNCHANGED <<pc, has_sensor, n_ch, smpl_seq_len, n_smpl_per_day, ch_no, ch_time,
                   loop_num, inp, rec, flux_file, diag_file, outputs, t_probe, chlut_probe,
                   combined, obj_in, obj_out>>

StartDay ==
    /\ pc = "campaign"
    /\ doy < DoyEnd
    /\ doy \in QclDays
    /\ has_sensor' \in BOOLEAN
    /\ n_ch' = Len(chlut_today(doy))
    /\ smpl_seq_len' = SmplSeqLen(doy)
    /\ n_smpl_per_day' = NSmplPerDay(doy, Len(chlut_today(doy)))
    /\ ch_no' = TiledChNo(doy)
    /\ ch_time' = [m \in 1..NSmplPerDay(doy, Len(chlut_today(doy))) |-> 0]
    /\ loop_num' = 0
    /\ inp' = NoInp
    /\ rec' = NoRec
    /\ pc' = "visits"
    /\ UNCHANGED <<doy, flux_file, diag_file, outputs, t_probe, chlut_probe,
                   combined, obj_in, obj_out>>

-----------------------------------------------------------------------------
(* One visit: the body of the per-visit loop (lines 822-1214) *)

Species == {"cos", "co", "co2", "h2o"}

\* doy_int, np.ceil of the median QCL time of the day's files
DoyInt(d) == d + 1

\* ch_time, t_start, t_o_b, t_cls, t_o_a, t_end from the chamber's row of the
\* schedule and the start of the cycle
TimesOf(row, cycle_start) ==
    [ch_time |-> cycle_start + row.ch_start + (row.ch_cls + row.ch_o_a) \div 2,
     t_start |-> cycle_start + row.ch_start,
     t_o_b |-> cycle_start + row.ch_start + row.ch_o_b,
     t_cls |-> cycle_start + row.ch_start + row.ch_cls,
     t_o_a |-> cycle_start + row.ch_start + row.ch_o_a,
     t_end |-> cycle_start + row.ch_start + row.ch_end]

\* the times with every cycle starting at the day's start
VisitTimesFirstCycle(d, loop, nch, len) ==
    TimesOf(chlut_today(d)[(loop % nch) + 1], (DoyInt(d) - 1) * SecPerDay)

\* the times of visit loop (0-based) of day d
VisitTimes(d, loop, nch, len) ==
    TimesOf(chlut_today(d)[(loop % nch) + 1],
            (DoyInt(d) - 1) * SecPerDay + (loop \div nch) * len)

\* soil chamber test on 09/06/2016
InLightDarkTest(t) == t > T(249, 8, 0) /\ t < T(249, 15, 0)

RenumberedChNo(t, c) == IF InLightDarkTest(t) /\ (c = 4 \/ c = 6) THEN 5 ELSE c

\* chlut[chlut['ch_no'] == c]
SelectRows(chlut, c) ==
    [j \in 1..Cardinality({i \in 1..Len(chlut) : chlut[i].ch_no = c}) |->
        chlut[CHOOSE i \in 1..Len(chlut) :
                 /\ chlut[i].ch_no = c
                 /\ Cardinality({k \in 1..(i - 1) : chlut[k].ch_no = c}) = j - 1]]

\* chlut_current: the rows of the table at ch_time whose ch_no is the visit's
chlut_current(t, c) == SelectRows(chamber_lookup_table_func(t), c)

\* the mark chosen by the parity of the visit's index alone
VisitLabelByLoopParity(t, c, loop, label) ==
    IF InLightDarkTest(t) /\ c = 5
    THEN IF loop % 2 = 0 THEN label \o "-dark" ELSE label \o "-light"
    ELSE label

\* the label recorded, with the mark of the light or dark chamber test
VisitLabel(t, c, loop, label) ==
    IF InLightDarkTest(t) /\ c = 5
    THEN IF (loop + loop \div 6) % 2 = 0 THEN label \o "-dark" ELSE label \o "-light"
    ELSE label

\* met data at the visit: air temperature at 17 m and at 4 m, in 0.01 C
T_air_17m == 1200
T_air_4m == 1000

AbsoluteZero == -27315

\* T_ch: the thermocouple mean, or the met value when there is none
ChamberTemp(c, in) ==
    LET sensor == IF in.sensor_in_window
                  THEN IF Lt(in.T_sensor, AbsoluteZero) THEN NaN ELSE in.T_sensor
                  ELSE NaN
    IN  IF IsNaN(sensor)
        THEN IF c <= 3 THEN T_air_17m ELSE T_air_4m
        ELSE sensor

\* f_ch_lpm: the flow read (converted to actual L/min), or the default
FlowLpm(c, f) ==
    IF IsNaN(f) \/ Lt(f, 100)
    THEN IF c <= 3 THEN 500 ELSE 1700
    ELSE f

\* volume of the sampling tube in mL: 4.318 mm inner diameter, 60 m (62.5 m for chamber 3)
TubeVolume(c) == IF c = 3 THEN 915 ELSE 879

\* time_lag_nominal, seconds
NominalLag(c, f) == IF c <= 3 THEN (TubeVolume(c) * 60) \div f ELSE 0

dt_lmargin(c) == IF c <= 3 THEN 15 ELSE 30
dt_rmargin(c) == IF c <= 3 THEN 15 ELSE 0

flag_timelag_optmz == TRUE

time_lag_uplim == 180

time_lag_lolim(t) == IF t > T(196, 6, 0) THEN 60 ELSE 90

\* the minimizer run for every chamber
RunsOptimizerAlways(c) == flag_timelag_optmz

\* whether optimize.minimize is run for the visit
RunsOptimizer(c) == flag_timelag_optmz /\ c <= 3

\* the fallback without the lower clamp
LagResultNoLowerClamp(t, nom, opt) ==
    IF Gt(opt.x, time_lag_uplim) \/ Lt(opt.x, time_lag_lolim(t)) \/ IsNaN(opt.x)
    THEN [t_lag_co2 |-> nanmin(nom, time_lag_uplim), status |-> 255]
    ELSE [t_lag_co2 |-> opt.x, status |-> opt.status]

\* time_lag_co2 and status_time_lag_co2 from the minimizer's result opt
LagResult(t, nom, opt) ==
    IF Gt(opt.x, time_lag_uplim) \/ Lt(opt.x, time_lag_lolim(t)) \/ IsNaN(opt.x)
    THEN [t_lag_co2 |-> nanmax(nanmin(nom, time_lag_uplim), time_lag_lolim(t)),
          status |-> 255]
    ELSE [t_lag_co2 |-> opt.x, status |-> opt.status]

\* the windows with the lag added to the end of the visit as well
WindowsLaggedEnd(c, vt, lag) ==
    [chb |-> [lo |-> vt.t_o_b + lag + dt_lmargin(c), hi |-> vt.t_cls + lag - dt_rmargin(c)],
     chc |-> [lo |-> vt.t_cls + lag + dt_lmargin(c), hi |-> vt.t_o_a + lag - dt_rmargin(c)],
     cha |-> [lo |-> vt.t_o_a + lag + dt_lmargin(c) + (IF c = 3 THEN 30 ELSE 0),
              hi |-> vt.t_end + lag]]

\* the open intervals of QCL time of ind_chb, ind_chc and ind_cha
Windows(c, vt, lag) ==
    [chb |-> [lo |-> vt.t_o_b + lag + dt_lmargin(c), hi |-> vt.t_cls + lag - dt_rmargin(c)],
     chc |-> [lo |-> vt.t_cls + lag + dt_lmargin(c), hi |-> vt.t_o_a + lag - dt_rmargin(c)],
     cha |-> [lo |-> vt.t_o_a + lag + dt_lmargin(c) + (IF c = 3 THEN 30 ELSE 0),
              hi |-> vt.t_end]]

IsEmpty(w) == w.hi <= w.lo + 1

\* more than two minutes required
flag_calc_flux_strict(n_ind_chc) == n_ind_chc > 120

\* need at least 2 min of data in the closure period
flag_calc_flux(n_ind_chc) == n_ind_chc >= 120

\* a slope as numerator and denominator; not-a-number as <<NaN, 1>>
NaNSlope == <<NaN, 1>>
ZeroSlope == <<0, 1>>

\* the baseline slope without the substitute for a missing median after closure
BaselineSlopeNoSubstitute(spc, chb, cha, tb, ta) ==
    IF spc = "h2o" THEN ZeroSlope
    ELSE IF IsNaN(chb) \/ IsNaN(cha) THEN NaNSlope ELSE <<cha - chb, ta - tb>>

\* the baseline slope without the exception for water
BaselineSlopeAllSpecies(spc, chb, cha, tb, ta) ==
    LET cha2 == IF IsNaN(cha) THEN chb ELSE cha
    IN  IF IsNaN(chb) \/ IsNaN(cha2) THEN NaNSlope ELSE <<cha2 - chb, ta - tb>>

\* k_bl of one species: chb, cha the medians before and after closure, tb, ta their times
BaselineSlope(spc, chb, cha, tb, ta) ==
    IF spc = "h2o" THEN ZeroSlope
    ELSE LET cha2 == IF IsNaN(cha) THEN chb ELSE cha
         IN  IF IsNaN(chb) \/ IsNaN(cha2) THEN NaNSlope ELSE <<cha2 - chb, ta - tb>>

\* sanity check 1 on the signed flux
FailsSanitySigned(flux_ch, iqr_cos, iqr_co2) ==
    \/ Gt(flux_ch, 500)
    \/ Gt(iqr_cos, 300) \/ Gt(iqr_co2, 300)

\* sanity check 2 on COS only
FailsSanityCosOnly(flux_ch, iqr_cos, iqr_co2) ==
    \/ Gt(Abs(flux_ch), 500)
    \/ Gt(iqr_cos, 300)

\* sanity checks that reject at the threshold
FailsSanityInclusive(flux_ch, iqr_cos, iqr_co2) ==
    \/ Ge(Abs(flux_ch), 500)
    \/ Ge(iqr_cos, 300) \/ Ge(iqr_co2, 300)

\* sanity checks 1 and 2: whether the species' flux is discarded
FailsSanity(flux_ch, iqr_cos, iqr_co2) ==
    \/ Gt(Abs(flux_ch), 500)
    \/ Gt(iqr_cos, 300) \/ Gt(iqr_co2, 300)

\* a fit whose slope is discarded together with the flux
FitSpeciesNullsSlope(slope, sd_slope, iqr_cos, iqr_co2) ==
    LET flux_ch == Neg(slope)
        sd_flux_ch == Abs(sd_slope)
        bad == FailsSanity(flux_ch, iqr_cos, iqr_co2)
    IN  [flux |-> IF bad THEN NaN ELSE flux_ch,
         sd |-> IF bad THEN NaN ELSE sd_flux_ch,
         k_fit |-> IF bad THEN NaN ELSE slope]

\* flux_ch, sd_flux_ch and the slope kept as diagnostic, of one species
FitSpecies(slope, sd_slope, iqr_cos, iqr_co2) ==
    LET flux_ch == Neg(slope)
        sd_flux_ch == Abs(sd_slope)
        bad == FailsSanity(flux_ch, iqr_cos, iqr_co2)
    IN  [flux |-> IF bad THEN NaN ELSE flux_ch,
         sd |-> IF bad THEN NaN ELSE sd_flux_ch,
         k_fit |-> slope]

\* time_lag_co2 and its status for chamber c
LagOf(c, t, nom, opt) ==
    IF RunsOptimizer(c) THEN LagResult(t, nom, opt) ELSE [t_lag_co2 |-> nom, status |-> -1]

\* a statistic of the samples of a window, not-a-number when the window has none
OfWindow(w, x) == IF IsEmpty(w) THEN NaN ELSE x

\* IQR_func of n samples, not-a-number when there is none
OfSamples(n, x) == IF n = 0 THEN NaN ELSE x

\* the number of samples found in a window
CountIn(w, n) == IF IsEmpty(w) THEN 0 ELSE n

\* median_chb_time and median_cha_time, seconds after t_start
TimeChb(win, vt) == (win.chb.lo + win.chb.hi) \div 2 - vt.t_start
TimeCha(win, vt, cha) ==
    IF IsNaN(cha) THEN win.chc.hi - 1 - vt.t_start
    ELSE (win.cha.lo + win.cha.hi) \div 2 - vt.t_start

\* the fit of one species of a visit with n samples in the closure window
FitOf(n, slope, sd_slope, iqr_cos, iqr_co2) ==
    IF flag_calc_flux(n)
    THEN FitSpecies(slope, sd_slope, OfSamples(n, iqr_cos), OfSamples(n, iqr_co2))
    ELSE [flux |-> NaN, sd |-> NaN, k_fit |-> NaN]

\* k_bl of one species of the visit
BaselineOf(n, s, win, vt, chb, cha) ==
    IF flag_calc_flux(n)
    THEN BaselineSlope(s, chb, cha, TimeChb(win, vt), TimeCha(win, vt, cha))
    ELSE NaNSlope

\* the values the loop body leaves, from the windows on
Fluxes(loop, c, in, vt, meta, f, nom, lagres, win, n) ==
    [valid |-> TRUE,
     loop_num |-> loop,
     ch_time |-> vt.ch_time,
     t_start |-> vt.t_start,
     t_end |-> vt.t_end,
     ch_no |-> c,
     ch_label |-> VisitLabel(vt.ch_time, c, loop, meta.ch_label),
     shoot_no |-> meta.shoot_no,
     A_ch |-> meta.A_ch,
     V_ch |-> meta.V_ch,
     T_ch |-> ChamberTemp(c, in),
     flow_lpm |-> f,
     t_lag_nom |-> nom,
     optimizer_run |-> RunsOptimizer(c),
     t_lag_co2 |-> lagres.t_lag_co2,
     status_tlag |-> lagres.status,
     win |-> win,
     n_ind_chc |-> n,
     cos_chc_iqr |-> OfSamples(n, in.iqr_cos),
     co2_chc_iqr |-> OfSamples(n, in.iqr_co2),
     flag_calc_flux |-> flag_calc_flux(n),
     med_chb |-> [s \in Species |-> OfWindow(win.chb, in.med_chb[s])],
     med_cha |-> [s \in Species |-> OfWindow(win.cha, in.med_cha[s])],
     k_bl |-> [s \in Species |->
                  BaselineOf(n, s, win, vt, OfWindow(win.chb, in.med_chb[s]),
                             OfWindow(win.cha, in.med_cha[s]))],
     flux |-> [s \in Species |->
                  FitOf(n, in.slope[s], in.sd_slope[s], in.iqr_cos, in.iqr_co2).flux],
     sd_flux |-> [s \in Species |->
                  FitOf(n, in.slope[s], in.sd_slope[s], in.iqr_cos, in.iqr_co2).sd],
     k_fit |-> [s \in Species |->
                  FitOf(n, in.slope[s], in.sd_slope[s], in.iqr_cos, in.iqr_co2).k_fit]]

\* the rows of the closure window with a finite concentration of every species
SamplesCountedFinite(n, n_nan) ==
    CHOOSE m \in {n - n_nan[s] : s \in Species} : \A s \in Species : m <= n - n_nan[s]

\* ind_chc[0].size: the rows of the closure window, whatever their concentrations
SamplesCounted(n, n_nan) == n

\* ... from the lag on
Sampled(loop, c, in, vt, meta, f, nom, lagres) ==
    Fluxes(loop, c, in, vt, meta, f, nom, lagres, Windows(c, vt, lagres.t_lag_co2),
           CountIn(Windows(c, vt, lagres.t_lag_co2).chc,
                   SamplesCounted(in.n_ind_chc, in.n_nan)))

\* ... from the flow on
Lagged(loop, c, in, vt, meta, f) ==
    Sampled(loop, c, in, vt, meta, f, NominalLag(c, f),
            LagOf(c, vt.ch_time, NominalLag(c, f), in.opt))

\* ... from the times and the chamber's meta data on
Measured(loop, c, in, vt, meta) == Lagged(loop, c, in, vt, meta, FlowLpm(c, in.f_lpm))

\* the switch time of the visit
DescriptorTimeStart(vt) == vt.t_start

\* the time at which the chamber's meta info is looked up: ch_time[loop_num]
DescriptorTime(vt) == vt.ch_time

\* the values the loop body leaves for visit loop of day d, chamber c, given what it read
VisitRecord(d, loop, c, nch, len, in) ==
    Measured(loop, c, in, VisitTimes(d, loop, nch, len),
             chlut_current(DescriptorTime(VisitTimes(d, loop, nch, len)), c)[1])

-----------------------------------------------------------------------------
(* What a visit reads from the data files *)

\* a visit with thermocouple data, no usable flow reading, a converged lag inside the
\* bounds, exactly two minutes of closure samples and modest fitted slopes
DefaultInput ==
    [valid |-> TRUE,
     sensor_in_window |-> TRUE,
     T_sensor |-> 1500,
     f_lpm |-> NaN,
     opt |-> [x |-> 120, status |-> 0],
     n_ind_chc |-> 120,
     n_nan |-> [s \in Species |-> 0],
     iqr_cos |-> 10,
     iqr_co2 |-> 10,
     slope |-> [s \in Species |-> 100],
     sd_slope |-> [s \in Species |-> -7],
     med_chb |-> [s \in Species |-> 400],
     med_cha |-> [s \in Species |-> 410]]

\* results of optimize.minimize: the minimizer and its status code
OptResults ==
    {[x |-> NaN, status |-> 1], [x |-> 59, status |-> 0], [x |-> 60, status |-> 0],
     [x |-> 89, status |-> 2], [x |-> 90, status |-> 1], [x |-> 150, status |-> 0],
     [x |-> 180, status |-> 2], [x |-> 181, status |-> 0]}

\* flow readings in mL/min, with the minimizer failing or converging
LeafFlows == {NaN, 50, 250, 1200}
SoilFlows == {NaN, 50, 3000}

LagOptFamily(c) ==
    IF c <= 3
    THEN {[DefaultInput EXCEPT !.opt = o] : o \in OptResults}
    ELSE {DefaultInput}

LagFlowFamily(c) ==
    IF c <= 3
    THEN {[DefaultInput EXCEPT !.f_lpm = f, !.opt = o] :
             f \in LeafFlows, o \in {[x |-> NaN, status |-> 1], [x |-> 120, status |-> 0]}}
    ELSE {[DefaultInput EXCEPT !.f_lpm = f] : f \in SoilFlows}

TempFamily ==
    {DefaultInput, [DefaultInput EXCEPT !.sensor_in_window = FALSE]}
    \cup {[DefaultInput EXCEPT !.T_sensor = x] : x \in {NaN, AbsoluteZero - 1, AbsoluteZero}}

\* numbers of samples in the closure window
SampleCounts == {0, 119, 120, 121}

\* rows of the closure window whose concentration of one species is not finite
NanCounts == {1, 2}

\* the linear regression of a species with such rows returns not-a-number
SampleFamily ==
    {[DefaultInput EXCEPT !.n_ind_chc = n] : n \in SampleCounts}
    \cup {[DefaultInput EXCEPT !.n_ind_chc = n, !.n_nan[s] = k,
                               !.slope[s] = NaN, !.sd_slope[s] = NaN] :
             n \in SampleCounts \ {0}, s \in {"cos", "co2"}, k \in NanCounts}

\* fitted slopes times chamber area, in hundredths
Slopes == {NaN, 499, 500, 501, -501}

SlopeFamily ==
    {[DefaultInput EXCEPT !.slope[s] = k, !.sd_slope[s] = IF k = NaN THEN NaN ELSE -7] :
        s \in {"cos", "h2o"}, k \in Slopes}
    \cup {[DefaultInput EXCEPT !.sd_slope = [s \in Species |-> NaN],
                               !.slope = [s \in Species |-> NaN]]}

\* interquartile ranges of COS and CO2 in the closure window
IqrPairs == {<<301, 10>>, <<10, 301>>, <<300, 300>>, <<NaN, NaN>>, <<10, 10>>}

IqrFamily ==
    {[DefaultInput EXCEPT !.iqr_cos = q[1], !.iqr_co2 = q[2]] : q \in IqrPairs}
    \cup {[DefaultInput EXCEPT !.iqr_cos = 301, !.n_ind_chc = 119]}

\* medians before and after closure
MedianPairs == {<<400, NaN>>, <<400, 400>>, <<400, 410>>, <<NaN, 410>>, <<NaN, NaN>>}

BaselineFamily ==
    {[DefaultInput EXCEPT !.med_chb = [s \in Species |-> q[1]],
                          !.med_cha = [s \in Species |-> q[2]]] : q \in MedianPairs}

NFamilies == 7

\* the readings enumerated for a visit of chamber c in cycle cyc of the day: one
\* quantity is varied per cycle, every chamber meets every family on every day
VisitInputs(c, cyc) ==
    CASE cyc % NFamilies = 0 -> TempFamily
      [] cyc % NFamilies = 1 -> LagOptFamily(c)
      [] cyc % NFamilies = 2 -> LagFlowFamily(c)
      [] cyc % NFamilies = 3 -> IqrFamily
      [] cyc % NFamilies = 4 -> SlopeFamily
      [] cyc % NFamilies = 5 -> SampleFamily
      [] OTHER -> BaselineFamily

-----------------------------------------------------------------------------
(* The per-visit loop and the end of the day *)

\* the chamber number of the visit after the renumbering of the soil chamber test
CurrentChNo == RenumberedChNo(VisitTimes(doy, loop_num, n_ch, smpl_seq_len).ch_time,
                              ch_no[loop_num + 1])

\* chlut_current has a row for the visit
HasMeta == Len(chlut_current(VisitTimes(doy, loop_num, n_ch, smpl_seq_len).ch_time,
                             CurrentChNo)) > 0

ProcessVisit ==
    /\ pc = "visits"
    /\ loop_num < n_smpl_per_day
    /\ has_sensor
    /\ HasMeta
    /\ \E in \in VisitInputs(CurrentChNo, loop_num \div n_ch) :
          /\ inp' = in
          /\ rec' = VisitRecord(doy, loop_num, CurrentChNo, n_ch, smpl_seq_len, in)
    /\ ch_no' = [ch_no EXCEPT ![loop_num + 1] = CurrentChNo]
    /\ ch_time' = [ch_time EXCEPT ![loop_num + 1] =
                      VisitTimes(doy, loop_num, n_ch, smpl_seq_len).ch_time]
    /\ loop_num' = loop_num + 1
    /\ UNCHANGED <<pc, doy, has_sensor, n_ch, smpl_seq_len, n_smpl_per_day,
                   flux_file, diag_file, outputs, t_probe, chlut_probe,
                   combined, obj_in, obj_out>>

\* the loop body raises: sensor_data of a day without sensor file has no named fields
VisitRaises ==
    /\ pc = "visits"
    /\ loop_num < n_smpl_per_day
    /\ ~has_sensor \/ ~HasMeta
    /\ pc' = "crashed"
    /\ UNCHANGED <<doy, has_sensor, n_ch, smpl_seq_len, n_smpl_per_day, ch_no, ch_time,
                   loop_num, inp, rec, flux_file, diag_file, outputs, t_probe, chlut_probe,
                   combined, obj_in, obj_out>>

\* the value columns of a row are carried for the last visit of the day, whose
\* array row is rec when the files are written; the rows of the earlier visits
\* carry their time and chamber columns only
NotCarried == [carried |-> FALSE]

\* fcos .. fh2o and sd_fcos .. sd_fh2o of row m (1-based)
FluxColumns(m) ==
    IF m = n_smpl_per_day /\ rec.valid
    THEN [carried |-> TRUE, flux |-> rec.flux, sd_flux |-> rec.sd_flux]
    ELSE NotCarried

\* k_cos .. k_h2o of row m (1-based)
DiagColumns(m) ==
    IF m = n_smpl_per_day /\ rec.valid
    THEN [carried |-> TRUE, k_fit |-> rec.k_fit]
    ELSE NotCarried

\* rows of the day's flux file: UTC time, local time, chamber, fluxes
FluxRows == [m \in 1..n_smpl_per_day |->
                [doy_utc |-> ch_time[m] - 7200, doy_local |-> ch_time[m], ch_no |-> ch_no[m],
                 values |-> FluxColumns(m)]]

\* rows of the day's diagnostics file
DiagRows == [m \in 1..n_smpl_per_day |->
                [doy_utc |-> ch_time[m], doy_local |-> ch_time[m] + 7200, ch_no |-> ch_no[m],
                 values |-> DiagColumns(m)]]

WriteOutput ==
    /\ pc = "visits"
    /\ loop_num = n_smpl_per_day
    /\ flux_file' = FluxRows
    /\ diag_file' = DiagRows
    /\ outputs' = outputs \cup {doy}
    /\ doy' = doy + 1
    /\ pc' = "campaign"
    /\ UNCHANGED <<has_sensor, n_ch, smpl_seq_len, n_smpl_per_day, ch_no, ch_time,
                   loop_num, inp, rec, t_probe, chlut_probe,
                   combined, obj_in, obj_out>>

\* glob.glob(output_dir + '/hyy_ch_16*.txt'): the files, in an order the
\* file system chooses
GlobOrders(files) ==
    {f \in [1..Cardinality(files) -> files] : \A i, j \in DOMAIN f : i # j => f[i] # f[j]}

\* all days done: if new data were generated the daily files are combined
Combine ==
    /\ pc = "campaign"
    /\ doy = DoyEnd
    /\ IF outputs # {}
       THEN combined' \in GlobOrders(outputs)
       ELSE combined' = combined
    /\ pc' = "done"
    /\ UNCHANGED <<doy, has_sensor, n_ch, smpl_seq_len, n_smpl_per_day, ch_no, ch_time,
                   loop_num, inp, rec, flux_file, diag_file, outputs, t_probe, chlut_probe,
                   obj_in, obj_out>>

Idle ==
    /\ doy = DoyStart
    /\ has_sensor = FALSE
    /\ n_ch = 0
    /\ smpl_seq_len = 0
    /\ n_smpl_per_day = 0
    /\ ch_no = << >>
    /\ ch_time = << >>
    /\ loop_num = 0
    /\ inp = NoInp
    /\ rec = NoRec
    /\ flux_file = << >>
    /\ diag_file = << >>
    /\ outputs = {}
    /\ combined = << >>

NoObj == [valid |-> FALSE]

Init ==
    /\ pc = "campaign"
    /\ t_probe = T(DoyStart, 0, 0)
    /\ chlut_probe = Raised
    /\ obj_in = NoObj
    /\ obj_out = NoObj
    /\ Idle

Next == SkipDay \/ StartDay \/ ProcessVisit \/ VisitRaises \/ WriteOutput \/ Combine

Spec == Init /\ [][Next]_vars

-----------------------------------------------------------------------------
(* The resolver on its own: a time stamp is drawn, the function applied *)

\* every time the function compares its argument with
Boundaries ==
    {T(103, 11, 0), T(111, 12, 0), T(108, 8, 25), T(112, 8, 30), T(119, 0, 0),
     T(140, 11, 30), T(145, 10, 11), T(154, 14, 8), T(166, 12, 0), T(158, 9, 0),
     T(175, 10, 0), T(241, 12, 0), T(255, 11, 0), T(245, 9, 40), T(252, 9, 31),
     T(110, 13, 40), T(131, 12, 0), T(135, 12, 0), T(145, 12, 0), T(111, 13, 15),
     T(111, 8, 20), T(111, 12, 20), T(154, 13, 40), T(158, 10, 0)}

\* days probed before the campaign's first day and after its last
ProbeMargin == 3

\* hours between two probes of the regular grid
ProbeStepHours == 6

ProbeTimes ==
    {b + d : b \in Boundaries \cup {T(DoyStart, 0, 0), T(DoyEnd, 0, 0)}, d \in {-1, 0, 1}}
    \cup {T(d, h, 0) : d \in (DoyStart - ProbeMargin)..(DoyEnd + ProbeMargin),
                       h \in {x \in 0..23 : x % (ProbeStepHours + 1) = 0 \/ x = 12}}

InitResolver ==
    /\ pc = "probe"
    /\ t_probe \in ProbeTimes
    /\ chlut_probe = Raised
    /\ obj_in = NoObj
    /\ obj_out = NoObj
    /\ Idle

Resolve ==
    /\ pc = "probe"
    /\ chlut_probe' = chamber_lookup_table_func(t_probe)
    /\ pc' = "resolved"
    /\ UNCHANGED <<doy, has_sensor, n_ch, smpl_seq_len, n_smpl_per_day, ch_no, ch_time,
                   loop_num, inp, rec, flux_file, diag_file, outputs, t_probe,
                   combined, obj_in, obj_out>>

SpecResolver == InitResolver /\ [][Resolve]_vars

-----------------------------------------------------------------------------
(* The lag objective on its own: func_conc_resid at one sample of the trial period *)

\* default arguments of func_conc_resid, in seconds
dt_open_before == 60
dt_close == 240
dt_open_after == 180
dt_left_margin == 0
dt_right_margin == 0

\* the durations func_conc_resid works with when optimize.minimize calls it:
\* args holds the time, the concentration and the turnover time only, so the
\* keyword defaults stand for every visit
ObjectiveDurations ==
    [open_before |-> dt_open_before, close |-> dt_close, open_after |-> dt_open_after]

\* the sample is one of _ind_chc: in the closure period shifted by t_lag
InIndChc(t_lag, time) ==
    /\ time >= t_lag + dt_open_before + dt_left_margin
    /\ time < t_lag + dt_open_before + dt_close - dt_right_margin

\* the index of the assignment that resets _conc_fitted to _conc_bl
ResetToBaseline(t_lag, time) ==
    /\ time < t_lag + dt_open_before
    /\ time > t_lag + dt_open_before + dt_close

\* the sample is kept in the residuals that are squared and summed
InResiduals(t_lag, time, closure_period_only) ==
    IF closure_period_only
    THEN InIndChc(t_lag, time)
    ELSE time <= t_lag + dt_open_before + dt_close

\* the terms of the fitted concentration at a sample: the baseline _conc_bl,
\* and the relaxation _slope * exp(-(time - t_lag - dt_open_before)/t_turnover)
\* + _intercept
FittedTerms(t_lag, time, closure_period_only) ==
    [valid |-> TRUE,
     scored |-> InResiduals(t_lag, time, closure_period_only),
     baseline |-> TRUE,
     relaxation |-> IF closure_period_only
                    THEN InIndChc(t_lag, time)
                    ELSE ~ResetToBaseline(t_lag, time)]

\* trial lags, seconds
ObjLags == {60, 90, 105, 120, 180}

\* sample times since the switch: every half minute of an 8-minute visit
ObjSteps == 16
ObjTimes == {HalfMin(i) : i \in 0..ObjSteps}

\* the trial period has one sample at each of ObjTimes; its concentration is
\* finite from finite[1] to finite[2]: all of the period, the start only, the
\* end only, none of it
ObjFinite == {<<0, 480>>, <<0, 120>>, <<390, 480>>, <<1, 0>>}

\* np.isfinite(time) & np.isfinite(conc) of the sample at time
IsFiniteAt(time, finite) == time >= finite[1] /\ time <= finite[2]

\* _ind_chc without the test of the concentration
IndChcAnyConc(t_lag, finite) == {time \in ObjTimes : InIndChc(t_lag, time)}

\* _ind_chc: the samples of the shifted closure period with finite time and concentration
IndChc(t_lag, finite) ==
    {time \in ObjTimes : InIndChc(t_lag, time) /\ IsFiniteAt(time, finite)}

\* what func_conc_resid returns: not-a-number when _x_obs is empty, the mean
\* squared residual otherwise
ConcResid(t_lag, finite) ==
    [n_chc |-> Cardinality(IndChc(t_lag, finite)),
     returned |-> IF Cardinality(IndChc(t_lag, finite)) = 0 THEN "nan" ELSE "MSR"]

InitObjective ==
    /\ pc = "objective"
    /\ obj_in \in [valid : {TRUE}, t_lag : ObjLags, time : ObjTimes, finite : ObjFinite,
                    closure_period_only : BOOLEAN]
    /\ obj_out = NoObj
    /\ t_probe = T(DoyStart, 0, 0)
    /\ chlut_probe = Raised
    /\ Idle

Score ==
    /\ pc = "objective"
    /\ obj_out' = FittedTerms(obj_in.t_lag, obj_in.time, obj_in.closure_period_only)
                   @@ ConcResid(obj_in.t_lag, obj_in.finite)
    /\ pc' = "scored"
    /\ UNCHANGED <<doy, has_sensor, n_ch, smpl_seq_len, n_smpl_per_day, ch_no, ch_time,
                   loop_num, inp, rec, flux_file, diag_file, outputs, t_probe, chlut_probe,
                   combined, obj_in>>

SpecObjective == InitObjective /\ [][Score]_vars

Column(chlut, col) == [i \in 1..Len(chlut) |-> chlut[i][col]]

-----------------------------------------------------------------------------
(* Claims on the resolver, under SpecResolver *)

\* C1: for every time stamp in the campaign span exactly one branch condition
\* of the if/elif chain holds (the epoch intervals neither overlap nor leave a
\* gap), consecutive seconds lie in the same or in the next epoch, and a table
\* is returned.
C1_ExactlyOneEpoch ==
    (pc = "resolved" /\ InSpan(t_probe)) =>
        /\ Cardinality({k \in 1..NEpochs : EpochCond(k, t_probe)}) = 1
        /\ chlut_probe # Raised
        /\ Len(chlut_probe) \in {5, 6}
        /\ InSpan(t_probe + 1) =>
              \E k \in 1..NEpochs :
                 /\ EpochCond(k, t_probe)
                 /\ EpochCond(k, t_probe + 1) \/ (k < NEpochs /\ EpochCond(k + 1, t_probe + 1))

\* a time stamp at an epoch boundary inside the span has been resolved
C1_Witness ==
    /\ pc = "resolved"
    /\ t_probe = T(111, 12, 0)
    /\ Column(chlut_probe, "ch_label") = <<"LC-S-A", "LC-S-B", "LC-XL", "SC1", "SC2">>
    /\ Column(chlut_probe, "shoot_no") = <<0, 0, 0, -1, -1>>

C3_OffsetsIncreasing ==
    (pc = "resolved" /\ chlut_probe # Raised) =>
        \A i \in 1..Len(chlut_probe) :
            /\ chlut_probe[i].ch_cls < chlut_probe[i].ch_o_a
            /\ chlut_probe[i].ch_o_a < chlut_probe[i].ch_end

\* a table of the 1.5-hour schedule has been returned
C3_Witness ==
    /\ pc = "resolved"
    /\ Len(chlut_probe) = 6
    /\ chlut_probe[4].ch_cls = 120
    /\ chlut_probe[4].ch_end = 780

\* C29: at every time stamp the test ch_no <= 3 that selects the leaf-chamber
\* processing agrees with the occupant marker of the resolved table: chambers
\* 1 to 3 have shoot_no >= 0 (0 = no chamber connected, positive = a leaf
\* occupant), chambers 4, 5 and 6 have shoot_no = -1, and the ch_no values
\* are unique within the table.
C29_LeafTestMatchesOccupant ==
    (pc = "resolved" /\ chlut_probe # Raised) =>
        /\ \A i \in 1..Len(chlut_probe) :
              /\ chlut_probe[i].ch_no \in 1..6
              /\ chlut_probe[i].ch_no <= 3 <=> chlut_probe[i].shoot_no >= 0
              /\ chlut_probe[i].ch_no >= 4 <=> chlut_probe[i].shoot_no = -1
        /\ \A i, j \in 1..Len(chlut_probe) :
              i # j => chlut_probe[i].ch_no # chlut_probe[j].ch_no

\* a table of six chambers resolved while no chamber is connected to the
\* first channel: chamber 1 has shoot_no 0, chamber 6 in the fourth row -1
C29_Witness ==
    /\ pc = "resolved"
    /\ Len(chlut_probe) = 6
    /\ chlut_probe[1].ch_no = 1
    /\ chlut_probe[1].shoot_no = 0
    /\ chlut_probe[2].shoot_no > 0
    /\ chlut_probe[4].ch_no = 6
    /\ chlut_probe[4].shoot_no = -1

-----------------------------------------------------------------------------
(* Claims on the visits and the daily files, under Spec *)

Clamp(v, lo, hi) == IF v < lo THEN lo ELSE IF v > hi THEN hi ELSE v

IsLeaf(r) == r.ch_no <= 3

C5_SoilLagZero ==
    rec.valid =>
        /\ rec.optimizer_run => IsLeaf(rec)
        /\ ~IsLeaf(rec) => /\ rec.t_lag_nom = 0
                           /\ rec.t_lag_co2 = 0
                           /\ rec.status_tlag = -1

\* the large soil chamber has been visited with a flow reading of 3 L/min
C5_Witness ==
    /\ rec.valid
    /\ rec.ch_no = 6
    /\ inp.f_lpm = 3000
    /\ rec.t_lag_co2 = 0
    /\ rec.status_tlag = -1

\* C6: the fit is made if and only if the closure window holds at least 120
\* samples.  Below that all four fluxes and standard errors are not-a-number
\* and no slope is kept; from 120 on the slope of each of the four species is kept.
C6_FitIffEnoughSamples ==
    rec.valid =>
        /\ rec.flag_calc_flux <=> rec.n_ind_chc >= 120
        /\ rec.n_ind_chc < 120 =>
              \A s \in Species :
                  rec.flux[s] = NaN /\ rec.sd_flux[s] = NaN /\ rec.k_fit[s] = NaN
        /\ rec.n_ind_chc >= 120 =>
              \A s \in Species : rec.k_fit[s] = inp.slope[s]

\* a visit with 119 samples in the closure window has been skipped
C6_Witness ==
    /\ rec.valid
    /\ inp.n_ind_chc = 119
    /\ rec.n_ind_chc = 119
    /\ ~rec.flag_calc_flux
    /\ \A s \in Species : rec.flux[s] = NaN /\ rec.sd_flux[s] = NaN

\* the drift filter of the visit: the interquartile range of COS or CO2 above 300
Drifted == (rec.cos_chc_iqr # NaN /\ rec.cos_chc_iqr > 300)
           \/ (rec.co2_chc_iqr # NaN /\ rec.co2_chc_iqr > 300)

\* C7: after a fit with a finite slope, flux and standard error of the species
\* are both not-a-number exactly when the flux times the chamber area exceeds 5
\* in magnitude or the drift filter fires; otherwise both are kept as fitted.
\* 5.01 is discarded, 4.99 is kept.
C7_SanityBound ==
    (rec.valid /\ rec.flag_calc_flux) =>
        \A s \in Species :
            /\ rec.flux[s] = NaN <=> rec.sd_flux[s] = NaN
            /\ inp.slope[s] # NaN =>
                  LET magnitude == IF inp.slope[s] < 0 THEN -inp.slope[s] ELSE inp.slope[s]
                      nulled == rec.flux[s] = NaN /\ rec.sd_flux[s] = NaN
                      kept == /\ rec.flux[s] = -inp.slope[s]
                              /\ rec.sd_flux[s] # NaN
                              /\ rec.sd_flux[s] >= 0
                  IN  /\ (magnitude > 500 \/ Drifted) <=> nulled
                      /\ ~(magnitude > 500 \/ Drifted) <=> kept
                      /\ magnitude = 501 => nulled
                      /\ (magnitude = 499 /\ ~Drifted) => kept

\* a COS flux of magnitude 5.01 has been discarded, the other species kept
C7_Witness ==
    /\ rec.valid
    /\ rec.flag_calc_flux
    /\ inp.slope["cos"] = 501
    /\ rec.flux["cos"] = NaN
    /\ rec.sd_flux["cos"] = NaN
    /\ rec.flux["co2"] = -100
    /\ rec.sd_flux["co2"] = 7

\* C8: when the interquartile range of COS or of CO2 in the closure window
\* exceeds 300, fluxes and standard errors of all four species are
\* not-a-number, whatever the fits returned.
C8_DriftDiscardsAll ==
    (rec.valid /\ ((inp.iqr_cos # NaN /\ inp.iqr_cos > 300)
                   \/ (inp.iqr_co2 # NaN /\ inp.iqr_co2 > 300))) =>
        \A s \in Species : rec.flux[s] = NaN /\ rec.sd_flux[s] = NaN

\* CO2 alone has drifted; water was fitted and its flux discarded
C8_Witness ==
    /\ rec.valid
    /\ rec.flag_calc_flux
    /\ inp.iqr_cos = 10
    /\ inp.iqr_co2 = 301
    /\ rec.k_fit["h2o"] = 100
    /\ rec.flux["h2o"] = NaN
    /\ rec.sd_flux["h2o"] = NaN

\* middle of a window, in seconds after the start of the visit
MidTime(w) == (w.lo + w.hi) \div 2 - rec.t_start

\* C9: the baseline slope of water is zero whatever the medians before and
\* after closure; that of COS, CO and CO2 is the slope of the line through the
\* point of the median before closure and that of the median after closure.
C9_WaterBaselineFlat ==
    (rec.valid /\ rec.flag_calc_flux) =>
        /\ rec.k_bl["h2o"][1] = 0
        /\ rec.k_bl["h2o"][2] # 0
        /\ \A s \in Species \ {"h2o"} :
              (rec.med_chb[s] # NaN /\ rec.med_cha[s] # NaN) =>
                  /\ rec.k_bl[s][1] = rec.med_cha[s] - rec.med_chb[s]
                  /\ rec.k_bl[s][2] = MidTime(rec.win.cha) - MidTime(rec.win.chb)
                  /\ rec.k_bl[s][2] > 0

\* the medians of water differ by 10 and its baseline is flat, that of CO2 is not
C9_Witness ==
    /\ rec.valid
    /\ rec.flag_calc_flux
    /\ rec.med_chb["h2o"] = 400
    /\ rec.med_cha["h2o"] = 410
    /\ rec.k_bl["h2o"] = <<0, 1>>
    /\ rec.k_bl["co2"][1] = 10

\* cycles of a day that are used, and chambers in the loop
UsableCycles(d) ==
    IF d = 109 THEN 18 ELSE IF d = 118 THEN 17 ELSE IF d <= 118 THEN 24 ELSE 16

ChambersInLoop(d) == IF d < 119 THEN 5 ELSE 6

\* the day of a file, from its first row
FileDay(f, col) == f[1][col] \div SecPerDay

\* C10: a day has chambers x usable cycles visits (24 cycles up to day 118, 16
\* after, 18 on day 109, 17 on day 118), and the flux file and the diagnostics
\* file written for it hold one row per visit.
C10_RowsPerDay ==
    /\ pc = "visits" =>
          /\ n_smpl_per_day = ChambersInLoop(doy) * UsableCycles(doy)
          /\ Len(ch_no) = n_smpl_per_day
          /\ loop_num <= n_smpl_per_day
    /\ Len(flux_file) > 0 =>
          /\ Len(flux_file) = ChambersInLoop(FileDay(flux_file, "doy_local"))
                              * UsableCycles(FileDay(flux_file, "doy_local"))
          /\ Len(diag_file) = Len(flux_file)
          /\ FileDay(diag_file, "doy_utc") = FileDay(flux_file, "doy_local")
          /\ FileDay(flux_file, "doy_local") \in outputs
          /\ \A m \in 1..Len(flux_file) : flux_file[m].ch_no = diag_file[m].ch_no

\* the files of day 118 have been written with 5 x 17 rows
C10_Witness ==
    /\ Len(flux_file) = 85
    /\ Len(diag_file) = 85
    /\ FileDay(flux_file, "doy_local") = 118

-----------------------------------------------------------------------------
(* Claims on the overrides of the resolver, under SpecResolver *)

Overrides == OccupantOverrides \cup AreaOverrides \cup NoChamberOverrides

\* the resolver applies override o at time t
Active(o, t) ==
    IF o \in OccupantOverrides THEN EpochOf(t) = OccupantEpoch(o) /\ OccupantCond(o, t)
    ELSE IF o \in AreaOverrides THEN AreaPhase(o, t) /\ AreaCond(o, t)
    ELSE NoChamberCond(o, t)

\* override o is applied on both sides of a boundary between two branches
Straddles(o) ==
    \E b \in Boundaries :
        /\ EpochOf(b - 1) # EpochOf(b)
        /\ Active(o, b - 1)
        /\ Active(o, b)

\* the overrides whose windows reach across a boundary
Straddlers ==
    {"no_aux4_d110", "no_aux3_d111", "no_bg_d111", "tsc", "aspen_leaf", "sa_shoots_area",
     "slide_area"}

\* C17: every fine-grained override the resolver applies (occupant swaps,
\* area and volume changes, no-chamber windows) has a time window inside a
\* single coarse epoch interval; none straddles a coarse-epoch boundary.
C17_OverridesInsideEpoch ==
    pc = "resolved" =>
        \A o \in Overrides : Active(o, t_probe) => ~Straddles(o)

\* C17, as the code has it: the occupant and label overrides, the two area
\* changes of the one-hour phase, the area changes from day 166.5 on and the
\* no-chamber windows of days 154 and 158 lie inside one coarse epoch; the
\* three no-chamber windows of days 110 to 111 straddle the boundary at
\* 111.5, and the area changes that start on 131.5, 135.5, 145 10:11 and
\* 154 14:08 are open-ended and stay applied across the later boundaries.
C17_OverridesInsideEpochOrListed ==
    pc = "resolved" =>
        \A o \in Overrides : Active(o, t_probe) => (Straddles(o) <=> o \in Straddlers)

\* at noon of day 111 the third branch is taken and the chamber of the first
\* channel is still marked absent by the window that opened on day 110
C17_Witness ==
    /\ pc = "resolved"
    /\ t_probe = T(111, 12, 0)
    /\ EpochOf(t_probe) = 3
    /\ EpochOf(t_probe - 1) = 2
    /\ Active("no_aux4_d110", t_probe)
    /\ Active("no_aux4_d110", t_probe - 1)
    /\ chlut_probe[1].shoot_no = 0
    /\ chlut_probe[1].ch_label = "LC-S-A"

-----------------------------------------------------------------------------
(* Claims on the day loop, under Spec *)

\* C11: a day without raw concentration file is skipped as a whole: no visit
\* of it is processed, no flux file and no diagnostics file is written for
\* it, and the day loop goes on with the next day.
C11_NoQclDaySkipped ==
    [][(pc = "campaign" /\ doy < DoyEnd /\ doy \notin QclDays) =>
          /\ pc' = "campaign"
          /\ doy' = doy + 1
          /\ UNCHANGED <<loop_num, inp, rec, ch_no, ch_time, flux_file, diag_file,
                         outputs>>]_vars

\* day 97 was written, day 98 has no raw data and was passed over
C11_Witness ==
    /\ pc = "campaign"
    /\ doy = 99
    /\ outputs = {97}
    /\ 98 \notin QclDays

\* the meteorological temperature of a chamber: 17 m for ch_no <= 3, 4 m otherwise
MetTemp(c) == IF c <= 3 THEN T_air_17m ELSE T_air_4m

\* no usable thermocouple value for the visit
NoSensorValue(in) ==
    \/ ~in.sensor_in_window
    \/ IsNaN(in.T_sensor)
    \/ in.T_sensor < AbsoluteZero

\* C12: every visit produces its record, and when no chamber-sensor sample
\* falls inside the visit window (a day without sensor file included), or the
\* sensor mean is not-a-number or below -273.15, the chamber temperature is
\* the meteorological one.
C12_VisitAlwaysRecorded ==
    [][(pc = "visits" /\ loop_num < n_smpl_per_day) =>
          /\ loop_num' = loop_num + 1
          /\ rec'.valid
          /\ (~has_sensor \/ NoSensorValue(inp')) => rec'.T_ch = MetTemp(rec'.ch_no)]_vars

\* C15: a day without chamber-sensor file is processed to completion: the
\* missing sensor data never abort the day or the campaign.
C15_NoSensorDayCompletes ==
    pc = "crashed" => has_sensor

\* the order in which a cycle of day d visits the chambers
CycleOrder(d) == IF d < 119 THEN <<1, 2, 3, 4, 5>> ELSE <<1, 2, 3, 6, 4, 5>>

\* the chamber number written for a visit at time t of chamber c
WrittenChNo(t, c) ==
    IF t > T(249, 8, 0) /\ t < T(249, 15, 0) /\ c \in {4, 6} THEN 5 ELSE c

\* the cycle of row m in a daily file of day d
CycleOfRow(m, d) == (m - 1) \div ChambersInLoop(d)

\* C14: the emitted records are ordered by day, then cycle, then chamber
\* number: within one cycle of a daily file the ch_no column is increasing,
\* and the combined table lists the daily files in day order.
C14_OrderedByDayCycleChamber ==
    /\ Len(flux_file) > 0 =>
          \A m \in 1..(Len(flux_file) - 1) :
             CycleOfRow(m, FileDay(flux_file, "doy_local"))
               = CycleOfRow(m + 1, FileDay(flux_file, "doy_local"))
             => flux_file[m].ch_no < flux_file[m + 1].ch_no
    /\ pc = "done" =>
          \A i, j \in 1..Len(combined) : i < j => combined[i] < combined[j]

\* C14, as the code has it: the rows of a daily file are in increasing time,
\* cycle after cycle, and within a cycle in the order of the sampling
\* schedule (1,2,3,4,5 up to day 118 and 1,2,3,6,4,5 after, numbers 4 and 6
\* written as 5 during the soil chamber test of day 249); the combined table
\* holds every daily file once, in no particular order of days.
C14_OrderedBySchedule ==
    /\ Len(flux_file) > 0 =>
          /\ \A m \in 1..(Len(flux_file) - 1) :
                flux_file[m].doy_local < flux_file[m + 1].doy_local
          /\ \A m \in 1..Len(flux_file) :
                flux_file[m].ch_no =
                    WrittenChNo(flux_file[m].doy_local,
                                CycleOrder(FileDay(flux_file, "doy_local"))
                                   [((m - 1) % ChambersInLoop(FileDay(flux_file, "doy_local"))) + 1])
    /\ pc = "done" =>
          /\ Len(combined) = Cardinality(outputs)
          /\ {combined[i] : i \in 1..Len(combined)} = outputs

\* the file of day 249 has chamber 6 before chamber 4 in its first cycle and
\* chamber 5 three times in a cycle of the test, and the combined table
\* starts with a later day than its second
C14_Witness ==
    /\ pc = "done"
    /\ Len(flux_file) = 96
    /\ FileDay(flux_file, "doy_local") = 249
    /\ flux_file[4].ch_no = 6
    /\ flux_file[5].ch_no = 4
    /\ \E m \in 1..94 : /\ flux_file[m].ch_no = 5
                        /\ flux_file[m + 1].ch_no = 5
                        /\ flux_file[m + 2].ch_no = 5
    /\ Len(combined) >= 2
    /\ combined[1] > combined[2]

\* the resolver's row for chamber c at time t
Descriptor(t, c) == SelectRows(chamber_lookup_table_func(t), c)[1]

\* the record's descriptor fields are those of row
SameDescriptor(r, row) ==
    /\ r.ch_label = VisitLabel(r.ch_time, r.ch_no, r.loop_num, row.ch_label)
    /\ r.shoot_no = row.shoot_no
    /\ r.A_ch = row.A_ch
    /\ r.V_ch = row.V_ch

\* C16: the chamber descriptor recorded for a visit is the one the schedule
\* resolver returns at the visit's switch time t_start.
C16_DescriptorAtSwitchTime ==
    rec.valid => SameDescriptor(rec, Descriptor(rec.t_start, rec.ch_no))

\* C16, as the code has it: the descriptor recorded for a visit is the one
\* the resolver returns at the visit's time stamp ch_time, the middle of the
\* closure period.
C16_DescriptorAtChTime ==
    rec.valid => SameDescriptor(rec, Descriptor(rec.ch_time, rec.ch_no))

\* a visit whose switch time and time stamp lie on the two sides of an
\* override boundary
C16_Witness ==
    /\ rec.valid
    /\ rec.shoot_no # Descriptor(rec.t_start, rec.ch_no).shoot_no
    /\ rec.shoot_no = Descriptor(rec.ch_time, rec.ch_no).shoot_no

-----------------------------------------------------------------------------
(* Claims on the sample count and the sanity thresholds, under Spec *)

\* the visit was skipped: nothing fitted, nothing kept
Skipped ==
    /\ ~rec.flag_calc_flux
    /\ \A s \in Species :
          rec.flux[s] = NaN /\ rec.sd_flux[s] = NaN /\ rec.k_fit[s] = NaN

\* C19: a visit with fewer than 120 finite closure-period samples is skipped
\* even when its closure window holds 120 or more samples: the minimum-data
\* test counts only the samples whose concentration is finite, and a skipped
\* visit has not-a-number flux for all species and no fit diagnostics.
C19_FiniteSamplesCounted ==
    (rec.valid /\ ~IsEmpty(rec.win.chc)
       /\ \E s \in Species : inp.n_ind_chc - inp.n_nan[s] < 120) => Skipped

\* C19, as the code has it: the minimum-data test counts every sample of the
\* closure window, finite or not.  A visit is skipped exactly when the window
\* holds fewer than 120 samples; with 120 or more, of which some are not
\* finite, the fits are made and the slope of every species is kept as the
\* regression returned it.
C19_AllSamplesCounted ==
    (rec.valid /\ ~IsEmpty(rec.win.chc)) =>
        /\ rec.n_ind_chc = inp.n_ind_chc
        /\ rec.flag_calc_flux <=> inp.n_ind_chc >= 120
        /\ inp.n_ind_chc < 120 => Skipped
        /\ inp.n_ind_chc >= 120 =>
              \A s \in Species :
                 /\ rec.k_fit[s] = inp.slope[s]
                 /\ (inp.slope[s] # NaN /\ inp.slope[s] = 100 /\ ~Drifted) =>
                        rec.flux[s] = -100

\* 120 samples in the closure window, one without COS concentration: the
\* fits were made, CO2 has its flux
C19_Witness ==
    /\ rec.valid
    /\ inp.n_ind_chc = 120
    /\ inp.n_nan["cos"] = 1
    /\ rec.n_ind_chc = 120
    /\ rec.flag_calc_flux
    /\ rec.flux["cos"] = NaN
    /\ rec.flux["co2"] = -100
    /\ rec.sd_flux["co2"] = 7

\* the magnitude of a fitted slope
Magnitude(k) == IF k < 0 THEN -k ELSE k

\* a value of the visit sits on a threshold: the flux of species s times the
\* area on 5, or an interquartile range on 300
AtThreshold(s) ==
    \/ Magnitude(inp.slope[s]) = 500
    \/ rec.cos_chc_iqr = 300
    \/ rec.co2_chc_iqr = 300

\* C20: the sanity thresholds reject at the threshold: a flux whose magnitude
\* times the area is exactly 5, or a visit whose COS or CO2 interquartile
\* range is exactly 300, has flux and standard error set to not-a-number.
C20_ThresholdRejects ==
    (rec.valid /\ rec.flag_calc_flux) =>
        \A s \in Species :
            (inp.slope[s] # NaN /\ AtThreshold(s)) =>
                rec.flux[s] = NaN /\ rec.sd_flux[s] = NaN

\* C20, as the code has it: the thresholds are exclusive.  A flux whose
\* magnitude times the area is exactly 5 and an interquartile range of
\* exactly 300 are accepted: flux and standard error are kept unless
\* another value of the visit lies above its threshold.
C20_ThresholdKeeps ==
    (rec.valid /\ rec.flag_calc_flux) =>
        \A s \in Species :
            (inp.slope[s] # NaN /\ AtThreshold(s)
               /\ Magnitude(inp.slope[s]) <= 500 /\ ~Drifted) =>
                /\ rec.flux[s] = -inp.slope[s]
                /\ rec.sd_flux[s] # NaN

\* a COS flux of exactly 5 has been kept
C20_Witness ==
    /\ rec.valid
    /\ rec.flag_calc_flux
    /\ inp.slope["cos"] = 500
    /\ rec.flux["cos"] = -500
    /\ rec.sd_flux["cos"] = 7

-----------------------------------------------------------------------------
(* Claim on the lag objective, under SpecObjective *)

\* C18: in the full-window scoring mode the relaxation term contributes to
\* the fitted concentration only for samples inside the lag-shifted closure
\* window; for a sample before lag + openBefore or after lag + openBefore +
\* closeDuration the fitted value is the baseline alone.
C18_RelaxationOnlyInClosure ==
    (pc = "scored" /\ ~obj_in.closure_period_only) =>
        /\ obj_out.baseline
        /\ (\/ obj_in.time < obj_in.t_lag + dt_open_before
            \/ obj_in.time > obj_in.t_lag + dt_open_before + dt_close)
           => ~obj_out.relaxation

\* C23: whenever the lag objective is evaluated at a trial lag for which no
\* sample with finite time and concentration lies in the lag-shifted closure
\* window, it returns not-a-number, never zero or another number.
C23_NoObservationsUndefined ==
    (pc = "scored"
       /\ ~\E time \in ObjTimes :
              /\ time >= obj_in.t_lag + 60
              /\ time < obj_in.t_lag + 300
              /\ time >= obj_in.finite[1]
              /\ time <= obj_in.finite[2]) =>
        /\ obj_out.n_chc = 0
        /\ obj_out.returned = "nan"

\* the concentration is finite in the first two minutes only and the trial
\* lag of 90 s puts the closure window behind them
C23_Witness ==
    /\ pc = "scored"
    /\ obj_in.t_lag = 90
    /\ obj_in.finite = <<0, 120>>
    /\ obj_out.returned = "nan"

-----------------------------------------------------------------------------
(* Claim on the durations of the lag objective, under Spec *)

\* the durations of the three periods of a visit, from its schedule offsets
ScheduleDurations(vt) ==
    [open_before |-> vt.t_cls - vt.t_o_b,
     close |-> vt.t_o_a - vt.t_cls,
     open_after |-> vt.t_end - vt.t_o_a]

\* C24: the pre-closure, closure and post-closure durations the lag objective
\* uses for a leaf-chamber visit equal the durations given by the chamber's
\* schedule offsets (ch_cls - ch_o_b, ch_o_a - ch_cls, ch_end - ch_o_a), in
\* the 1-hour phase and in the 1.5-hour phase alike.
C24_ObjectiveDurationsFromSchedule ==
    (pc = "visits" /\ rec.valid /\ rec.optimizer_run) =>
        ObjectiveDurations =
            ScheduleDurations(VisitTimes(doy, rec.loop_num, n_ch, smpl_seq_len))

-----------------------------------------------------------------------------
(* Claims on the sample windows, under Spec *)

\* the visit in rec is a leaf-chamber visit of the day being processed
LeafVisitOfDay == pc = "visits" /\ rec.valid /\ rec.ch_no <= 3

\* C25: for every leaf-chamber visit and every lag the estimator can record,
\* the post-closure sample window (t_o_a + lag + 15 s, plus 30 s more for
\* chamber 3, up to the un-lagged t_end) has positive duration, in both
\* schedule phases.
C25_PostClosureWindowPositive ==
    LeafVisitOfDay => rec.win.cha.hi > rec.win.cha.lo

\* C25, as the code has it: the post-closure window of a leaf-chamber visit
\* has positive duration for every lag in the 1.5-hour phase; in the 1-hour
\* phase, where the chamber is open for 180 s after the closure, it has
\* positive duration exactly when the lag is below 165 s (below 135 s for
\* chamber 3), and it is empty for the larger lags up to 180 s.
C25_PostClosureWindowUnlessLateLag ==
    LeafVisitOfDay =>
        /\ rec.t_lag_co2 >= 60
        /\ rec.t_lag_co2 <= 180
        /\ rec.win.cha.hi > rec.win.cha.lo
              <=> \/ doy > 118
                  \/ rec.t_lag_co2 < (IF rec.ch_no = 3 THEN 135 ELSE 165)

\* a leaf-chamber visit of the 1-hour phase with the lag at its upper limit:
\* the window after closure would start 15 s after the visit's end
C25_Witness ==
    /\ LeafVisitOfDay
    /\ doy <= 118
    /\ rec.t_lag_co2 = 180
    /\ rec.win.cha.lo = rec.t_end + 15
    /\ rec.win.cha.hi = rec.t_end

\* C26: within a day the closure sample windows (t_cls + lag + left margin,
\* t_o_a + lag - right margin) of two distinct visits are disjoint for every
\* combination of recorded lags: each visit's window is a proper interval
\* that starts no earlier than the end of the window of the visit before it.
C26_ClosureWindowsDisjoint ==
    [][(rec.valid /\ rec'.valid /\ rec'.loop_num = rec.loop_num + 1) =>
          /\ rec.win.chc.lo < rec.win.chc.hi
          /\ rec.win.chc.hi <= rec'.win.chc.lo
          /\ rec'.win.chc.lo < rec'.win.chc.hi]_vars

\* the second leaf-chamber visit of a cycle of the 1-hour phase with the
\* smallest lag of that phase: its closure window opens 105 s after the
\* chamber closes, the one before it ends at most 165 s after chamber 1 opens
C26_Witness ==
    /\ pc = "visits"
    /\ doy <= 118
    /\ rec.valid
    /\ rec.loop_num % n_ch = 1
    /\ rec.ch_no = 2
    /\ rec.t_lag_co2 = 90
    /\ rec.win.chc.lo = rec.t_start + 60 + 105

-----------------------------------------------------------------------------
(* Claims on the diagnostics and the output tables, under Spec *)

\* the last row of a file
LastRow(f) == f[Len(f)]

\* the files hold the rows of the visit in rec: they were written after it and
\* no later day has started
FilesOfRec == pc \in {"campaign", "done"} /\ rec.valid /\ Len(flux_file) > 0

\* C21: when a sanity filter nulls the flux of a species, only the flux and
\* its standard error are nulled: the slope the fit returned is kept as
\* diagnostic of the visit and species and is written to the diagnostics
\* table.
C21_DiagnosticsKept ==
    /\ (rec.valid /\ rec.flag_calc_flux) =>
          \A s \in Species :
              /\ rec.k_fit[s] = inp.slope[s]
              /\ (inp.slope[s] # NaN /\ (Magnitude(inp.slope[s]) > 500 \/ Drifted)) =>
                    rec.flux[s] = NaN /\ rec.sd_flux[s] = NaN /\ rec.k_fit[s] # NaN
    /\ FilesOfRec =>
          /\ LastRow(diag_file).values.carried
          /\ LastRow(diag_file).values.k_fit = rec.k_fit
          /\ LastRow(flux_file).values.flux = rec.flux
          /\ LastRow(flux_file).values.sd_flux = rec.sd_flux

\* the files of day 109 end with a visit whose fluxes the drift filter has
\* nulled: the flux columns are not-a-number, the slopes are in the
\* diagnostics file
C21_Witness ==
    /\ FilesOfRec
    /\ FileDay(flux_file, "doy_local") = 109
    /\ rec.flag_calc_flux
    /\ Drifted
    /\ \A s \in Species :
          /\ LastRow(flux_file).values.flux[s] = NaN
          /\ LastRow(flux_file).values.sd_flux[s] = NaN
          /\ LastRow(diag_file).values.k_fit[s] = 100

\* C22: when the window after closure has no finite concentration (it is
\* empty or all not-a-number) while the window before closure has, the point
\* after closure is replaced by the median before closure and the baseline
\* slope of every species is exactly zero; the fit is still made.
C22_MissingPostClosureFlat ==
    (rec.valid /\ rec.flag_calc_flux) =>
        \A s \in Species :
            (rec.med_cha[s] = NaN /\ rec.med_chb[s] # NaN) =>
                /\ rec.k_bl[s][1] = 0
                /\ rec.k_bl[s][2] > 0
                /\ s # "h2o" => rec.k_bl[s][2] = (rec.win.chc.hi - 1 - rec.t_start) - MidTime(rec.win.chb)
                /\ rec.k_fit[s] = inp.slope[s]
                /\ rec.flux[s] = -inp.slope[s]

\* the lag has moved the start of the window after closure past the end of
\* the visit: the window is empty, the baseline of CO2 is flat, the flux is there
C22_Witness ==
    /\ rec.valid
    /\ rec.flag_calc_flux
    /\ IsEmpty(rec.win.cha)
    /\ inp.med_cha["co2"] = 410
    /\ rec.med_cha["co2"] = NaN
    /\ rec.med_chb["co2"] = 400
    /\ rec.k_bl["co2"][1] = 0
    /\ rec.flux["co2"] = -100

\* C27: for the same visit the row of the flux table and the row of the
\* diagnostics table carry the same doy_utc and the same doy_local, with
\* doy_utc = doy_local - 2 hours in both tables.
C27_TablesShareTimes ==
    /\ Len(diag_file) = Len(flux_file)
    /\ \A m \in 1..Len(flux_file) :
          /\ diag_file[m].ch_no = flux_file[m].ch_no
          /\ diag_file[m].doy_utc = flux_file[m].doy_utc
          /\ diag_file[m].doy_local = flux_file[m].doy_local
          /\ flux_file[m].doy_utc = flux_file[m].doy_local - 2 * 3600
          /\ diag_file[m].doy_utc = diag_file[m].doy_local - 2 * 3600

-----------------------------------------------------------------------------
(* Claims on the schedule of the day and the chamber numbering, under Spec *)

\* the start of the cycle of visit loop of the day being processed
CycleStartOf(loop) == doy * SecPerDay + (loop \div n_ch) * smpl_seq_len

\* the rows for chamber c in the table resolved at the time stamp of visit loop
RowsAtVisit(loop, c) ==
    {i \in 1..Len(chamber_lookup_table_func(
                      VisitTimes(doy, loop, n_ch, smpl_seq_len).ch_time)) :
        chamber_lookup_table_func(
            VisitTimes(doy, loop, n_ch, smpl_seq_len).ch_time)[i].ch_no = c}

\* C28: on every processing day the schedule is consistent with the chamber
\* list: the day's table has 5 chambers with the 1-hour offsets when the day
\* index is <= 118 and 6 chambers with the 1.5-hour offsets otherwise, the
\* cycle length matches that phase, no visit window extends past the end of
\* its cycle, and the chamber number of every visit matches exactly one row
\* of the table resolved at the visit's own time stamp.
C28_ScheduleConsistent ==
    pc = "visits" =>
        /\ n_ch = Len(chlut_today(doy))
        /\ doy <= 118 =>
              /\ n_ch = 5
              /\ smpl_seq_len = 3600
              /\ Column(chlut_today(doy), "ch_no") = <<1, 2, 3, 4, 5>>
              /\ Column(chlut_today(doy), "ch_start") = <<660, 1140, 1620, 2490, 3000>>
              /\ Column(chlut_today(doy), "ch_end") = <<480, 480, 480, 630, 600>>
        /\ doy > 118 =>
              /\ n_ch = 6
              /\ smpl_seq_len = 5400
              /\ Column(chlut_today(doy), "ch_no") = <<1, 2, 3, 6, 4, 5>>
              /\ Column(chlut_today(doy), "ch_start") = <<720, 1260, 1800, 2940, 3900, 4560>>
              /\ Column(chlut_today(doy), "ch_end") = <<540, 540, 540, 780, 840, 840>>
        /\ n_smpl_per_day % n_ch = 0
        /\ n_smpl_per_day * smpl_seq_len <= n_ch * SecPerDay
        /\ rec.valid =>
              /\ rec.t_start >= CycleStartOf(rec.loop_num)
              /\ rec.t_end <= CycleStartOf(rec.loop_num) + smpl_seq_len
              /\ rec.win.chc.hi <= CycleStartOf(rec.loop_num) + smpl_seq_len
              /\ Cardinality(RowsAtVisit(rec.loop_num, rec.ch_no)) = 1
        /\ loop_num < n_smpl_per_day =>
              Cardinality(RowsAtVisit(loop_num, CurrentChNo)) = 1

\* the last visit of a cycle of the 1.5-hour phase, which ends with the cycle
C28_Witness ==
    /\ pc = "visits"
    /\ doy = 196
    /\ n_ch = 6
    /\ rec.valid
    /\ rec.ch_no = 5
    /\ rec.loop_num > 6
    /\ rec.t_end = CycleStartOf(rec.loop_num) + 5400

\* the time stamp lies strictly between 08:00 and 15:00 of day 249
InTestWindow(t) == t > 249 * SecPerDay + 8 * 3600 /\ t < 249 * SecPerDay + 15 * 3600

\* the chamber the schedule of the day puts at visit loop
ScheduledChNo(loop) == chlut_today(doy)[(loop % n_ch) + 1].ch_no

\* the soil-chamber visits of the test window recorded before visit loop
TestVisitsBefore(loop) ==
    Cardinality({m \in 1..loop : ch_no[m] >= 4 /\ InTestWindow(ch_time[m])})

\* C30: during the light/dark test window every soil-chamber visit is
\* recorded as ch_no 5 with chamber 5's metadata and a label ending in
\* "-dark" or "-light", successive such visits strictly alternate between the
\* two (the first one being dark), leaf-chamber visits are unchanged, and
\* outside the window no visit is renumbered or given a suffix.
C30_LightDarkTest ==
    (pc = "visits" /\ rec.valid) =>
        /\ (InTestWindow(rec.ch_time) /\ ScheduledChNo(rec.loop_num) >= 4) =>
              /\ rec.ch_no = 5
              /\ ch_no[rec.loop_num + 1] = 5
              /\ rec.shoot_no = Descriptor(rec.ch_time, 5).shoot_no
              /\ rec.A_ch = Descriptor(rec.ch_time, 5).A_ch
              /\ rec.V_ch = Descriptor(rec.ch_time, 5).V_ch
              /\ rec.ch_label =
                     Descriptor(rec.ch_time, 5).ch_label \o
                        (IF TestVisitsBefore(rec.loop_num) % 2 = 0 THEN "-dark" ELSE "-light")
        /\ ~(InTestWindow(rec.ch_time) /\ ScheduledChNo(rec.loop_num) >= 4) =>
              /\ rec.ch_no = ScheduledChNo(rec.loop_num)
              /\ ch_no[rec.loop_num + 1] = ScheduledChNo(rec.loop_num)
              /\ rec.ch_label = Descriptor(rec.ch_time, rec.ch_no).ch_label

\* the first soil-chamber visit of a cycle inside the window, chamber 6 by
\* the schedule, recorded as the light chamber after the dark one that ended
\* the cycle before
C30_Witness ==
    /\ pc = "visits"
    /\ doy = 249
    /\ rec.valid
    /\ rec.loop_num = 39
    /\ ScheduledChNo(39) = 6
    /\ rec.ch_no = 5
    /\ rec.ch_label = "SC2-light"
    /\ TestVisitsBefore(39) = 3

=============================================================================
